---- MODULE Spec2Model ----
(***************************************************************************)
(* Model of rfesi's EsiBuilder (src/src/builders.rs) and of the Character  *)
(* endpoint group (src/src/groups/character.rs).                           *)
(*                                                                         *)
(* Spec       : the builder; one action per setter and one for build().    *)
(* SpecClient : the life of a built Esi instance (token state, OAuth2      *)
(*              flow, endpoint calls).  The flow driver and the request    *)
(*              dispatcher are not part of the two source files; they are  *)
(*              modelled from the design document and marked so.           *)
(*                                                                         *)
(* Transport construction (reqwest ClientBuilder::build, builders.rs:115)  *)
(* fails only when the host's TLS backend or resolver cannot be            *)
(* initialised; the model takes a host on which it initialises.            *)
(***************************************************************************)
EXTENDS Integers, Sequences, FiniteSets, TLC

VARIABLES builder, last, result,
          esi, now, pending, calls, ncalls, wire, sent, borrow, mut,
          committed, flows, lastFlow

vars == <<builder, last, result,
          esi, now, pending, calls, ncalls, wire, sent, borrow, mut,
          committed, flows, lastFlow>>

builderVars == <<builder, last, result>>
clientVars == <<esi, now, pending, calls, ncalls, wire, sent, borrow, mut,
               committed, flows, lastFlow>>

----------------------------------------------------------------------------
(* Rust's Option<T>: None is the empty tuple, Some(v) the one-element tuple *)

None == <<>>

Some(v) == <<v>>

IsSome(o) == o /= <<>>

Unwrap(o) == o[1]

(* Rust's Result<T, E> *)

Ok(v) == [ok |-> TRUE, val |-> v]

Err(e) == [ok |-> FALSE, err |-> e]

----------------------------------------------------------------------------
(* Input values.  A user agent is the sequence of its bytes, because       *)
(* whether it is a legal header value is decided byte by byte.             *)

UA_d == <<100>>

UA_empty == <<>>

UA_newline == <<100, 10>>

UA_tab == <<100, 9, 100>>

UA_del == <<127>>

UserAgents == {UA_d, UA_empty, UA_newline, UA_tab, UA_del}

Strs == {"", "a"}

Versions == {"latest", "v1"}

Timeouts == {0, 5000}

Tokens == {"t0"}

RefreshTokens == {"r0"}

Expirations == {1}

OptOf(S) == {None} \cup {Some(v) : v \in S}

----------------------------------------------------------------------------
(* EsiError.  The enum is declared outside the two source files; the       *)
(* variant EmptyClientValue(String) is the one constructed in builders.rs. *)

EmptyClientValue(field) == [variant |-> "EmptyClientValue", field |-> field]

(* `?` on HeaderValue::from_str converts InvalidHeaderValue into EsiError  *)
(* through a From impl declared outside the two source files.              *)
FromInvalidHeaderValue == [variant |-> "InvalidHeaderValue", field |-> "user_agent"]

(* The error taxonomy of the design document, section 7.                   *)
ErrorKind(e) ==
    CASE e.variant = "EmptyClientValue" -> "ConfigError"
      [] e.variant = "InvalidHeaderValue" -> "ConfigError"
      [] e.variant = "ReqwestError" -> "TransportError"
      [] OTHER -> e.variant

----------------------------------------------------------------------------
(* struct EsiBuilder, #[derive(Default)]: every field None                 *)

BuilderFields == {"version", "client_id", "client_secret", "callback_url",
                  "access_token", "access_expiration", "refresh_token",
                  "user_agent", "http_timeout"}

EsiBuilder_new == [f \in BuilderFields |-> None]

(* Duration::from_millis and Duration::from_secs, both held in millis      *)

Duration_from_millis(ms) == ms

Duration_from_secs(s) == s * 1000

(* header::HeaderValue::from_str: every byte must be a tab, or at least    *)
(* 32 and not 127 (DEL).                                                   *)
IsVisibleAscii(b) == (b >= 32 /\ b /= 127) \/ b = 9

HeaderValue_from_str(s) ==
    IF \A i \in 1..Len(s) : IsVisibleAscii(s[i])
    THEN Ok(s)
    ELSE Err(FromInvalidHeaderValue)

construct_client_NoHeaderCheck(self) ==
    LET http_timeout == IF IsSome(self.http_timeout)
                        THEN Duration_from_millis(Unwrap(self.http_timeout))
                        ELSE Duration_from_secs(60)
    IN  IF ~IsSome(self.user_agent)
        THEN Err(EmptyClientValue("user_agent"))
        ELSE Ok([timeout |-> http_timeout,
                 default_headers |-> [user_agent |-> Some(Unwrap(self.user_agent)),
                                      accept |-> Some("application/json"),
                                      authorization |-> None]])

construct_client_TokenHeader(self) ==
    LET http_timeout == IF IsSome(self.http_timeout)
                        THEN Duration_from_millis(Unwrap(self.http_timeout))
                        ELSE Duration_from_secs(60)
    IN  IF ~IsSome(self.user_agent)
        THEN Err(EmptyClientValue("user_agent"))
        ELSE LET hv == HeaderValue_from_str(Unwrap(self.user_agent))
             IN  IF ~hv.ok
                 THEN Err(hv.err)
                 ELSE Ok([timeout |-> http_timeout,
                          default_headers |-> [user_agent |-> Some(hv.val),
                                               accept |-> Some("application/json"),
                                               authorization |-> self.access_token]])

construct_client_SecsAsMillis(self) ==
    LET http_timeout == IF IsSome(self.http_timeout)
                        THEN Duration_from_millis(Unwrap(self.http_timeout))
                        ELSE Duration_from_millis(60)
    IN  IF ~IsSome(self.user_agent)
        THEN Err(EmptyClientValue("user_agent"))
        ELSE LET hv == HeaderValue_from_str(Unwrap(self.user_agent))
             IN  IF ~hv.ok
                 THEN Err(hv.err)
                 ELSE Ok([timeout |-> http_timeout,
                          default_headers |-> [user_agent |-> Some(hv.val),
                                               accept |-> Some("application/json"),
                                               authorization |-> None]])

(* EsiBuilder::construct_client.  The result stands for the reqwest Client: *)
(* its timeout and its default headers (no Authorization header: the       *)
(* token header is a TODO in the source).                                  *)
construct_client(self) ==
    LET http_timeout == IF IsSome(self.http_timeout)
                        THEN Duration_from_millis(Unwrap(self.http_timeout))
                        ELSE Duration_from_secs(60)
    IN  IF ~IsSome(self.user_agent)
        THEN Err(EmptyClientValue("user_agent"))
        ELSE LET hv == HeaderValue_from_str(Unwrap(self.user_agent))
             IN  IF ~hv.ok
                 THEN Err(hv.err)
                 ELSE Ok([timeout |-> http_timeout,
                          default_headers |-> [user_agent |-> Some(hv.val),
                                               accept |-> Some("application/json"),
                                               authorization |-> None]])

build_SecretAfterCallback(self) ==
    LET c == construct_client(self)
    IN  IF ~c.ok THEN Err(c.err)
        ELSE IF ~IsSome(self.client_id) THEN Err(EmptyClientValue("client_id"))
        ELSE IF ~IsSome(self.callback_url) THEN Err(EmptyClientValue("callback_url"))
        ELSE IF ~IsSome(self.client_secret) THEN Err(EmptyClientValue("client_secret"))
        ELSE Ok([version |-> IF IsSome(self.version) THEN Unwrap(self.version) ELSE "latest",
                 client_id |-> Unwrap(self.client_id),
                 client_secret |-> Unwrap(self.client_secret),
                 callback_url |-> Unwrap(self.callback_url),
                 access_token |-> self.access_token,
                 access_expiration |-> self.access_expiration,
                 refresh_token |-> self.refresh_token,
                 client |-> c.val])

build_DropsExpiration(self) ==
    LET c == construct_client(self)
    IN  IF ~c.ok THEN Err(c.err)
        ELSE IF ~IsSome(self.client_id) THEN Err(EmptyClientValue("client_id"))
        ELSE IF ~IsSome(self.client_secret) THEN Err(EmptyClientValue("client_secret"))
        ELSE IF ~IsSome(self.callback_url) THEN Err(EmptyClientValue("callback_url"))
        ELSE Ok([version |-> IF IsSome(self.version) THEN Unwrap(self.version) ELSE "latest",
                 client_id |-> Unwrap(self.client_id),
                 client_secret |-> Unwrap(self.client_secret),
                 callback_url |-> Unwrap(self.callback_url),
                 access_token |-> self.access_token,
                 access_expiration |-> None,
                 refresh_token |-> self.refresh_token,
                 client |-> c.val])

(* EsiBuilder::build: the client first, then the struct fields in order.   *)
build(self) ==
    LET c == construct_client(self)
    IN  IF ~c.ok THEN Err(c.err)
        ELSE IF ~IsSome(self.client_id) THEN Err(EmptyClientValue("client_id"))
        ELSE IF ~IsSome(self.client_secret) THEN Err(EmptyClientValue("client_secret"))
        ELSE IF ~IsSome(self.callback_url) THEN Err(EmptyClientValue("callback_url"))
        ELSE Ok([version |-> IF IsSome(self.version) THEN Unwrap(self.version) ELSE "latest",
                 client_id |-> Unwrap(self.client_id),
                 client_secret |-> Unwrap(self.client_secret),
                 callback_url |-> Unwrap(self.callback_url),
                 access_token |-> self.access_token,
                 access_expiration |-> self.access_expiration,
                 refresh_token |-> self.refresh_token,
                 client |-> c.val])

----------------------------------------------------------------------------
(* The builder as a state machine.  `builder` is the accumulator, `last`   *)
(* records for each setter the argument of its latest call (None: never    *)
(* called), `result` is None until build() has run.                        *)

NotBuilt == result = None

(* A setter taking &str stores Some(val.to_owned()); a setter taking an    *)
(* Option stores the option itself.                                        *)
SetStr(field, val) ==
    /\ NotBuilt
    /\ builder' = [builder EXCEPT ![field] = Some(val)]
    /\ last' = [last EXCEPT ![field] = Some(val)]
    /\ UNCHANGED <<result, clientVars>>

SetOpt(field, val) ==
    /\ NotBuilt
    /\ builder' = [builder EXCEPT ![field] = val]
    /\ last' = [last EXCEPT ![field] = Some(val)]
    /\ UNCHANGED <<result, clientVars>>

Set_version == \E val \in Versions : SetStr("version", val)

Set_client_id == \E val \in Strs : SetStr("client_id", val)

Set_client_secret == \E val \in Strs : SetStr("client_secret", val)

Set_callback_url == \E val \in Strs : SetStr("callback_url", val)

Set_access_token == \E val \in OptOf(Tokens) : SetOpt("access_token", val)

Set_access_expiration == \E val \in OptOf(Expirations) : SetOpt("access_expiration", val)

Set_refresh_token == \E val \in OptOf(RefreshTokens) : SetOpt("refresh_token", val)

Set_user_agent == \E val \in UserAgents : SetStr("user_agent", val)

Set_http_timeout == \E val \in OptOf(Timeouts) : SetOpt("http_timeout", val)

Build ==
    /\ NotBuilt
    /\ result' = Some(build(builder))
    /\ UNCHANGED <<builder, last, clientVars>>

ClientIdle ==
    /\ esi = None
    /\ now = 0
    /\ pending = None
    /\ calls = {}
    /\ ncalls = 0
    /\ wire = {}
    /\ sent = 0
    /\ borrow = 0
    /\ mut = None
    /\ committed = {}
    /\ flows = 0
    /\ lastFlow = None

Init ==
    /\ builder = EsiBuilder_new
    /\ last = [f \in BuilderFields |-> None]
    /\ result = None
    /\ ClientIdle

Next ==
    \/ Set_version
    \/ Set_client_id
    \/ Set_client_secret
    \/ Set_callback_url
    \/ Set_access_token
    \/ Set_access_expiration
    \/ Set_refresh_token
    \/ Set_user_agent
    \/ Set_http_timeout
    \/ Build

Spec == Init /\ [][Next]_vars

----------------------------------------------------------------------------
(* The life of a built Esi instance.                                       *)
(*   esi       the Esi struct build() returned (token triple mutable)      *)
(*   now       the clock, seconds                                          *)
(*   pending   the state string of the open authorization request          *)
(*   calls     the endpoint calls in flight: number, endpoint, position    *)
(*             (borrowed, tokread, sent, rejected), the token and          *)
(*             expiration read, the time of gating, the result             *)
(*   ncalls    number of endpoint calls started                            *)
(*   wire      the API requests sent and not yet answered, each with the   *)
(*             number of its call                                          *)
(*   sent      number of HTTP requests issued (API and token endpoint)     *)
(*   borrow    number of live shared borrows of the Esi                    *)
(*   mut       the flow operation holding the exclusive borrow, if any     *)
(*   committed the (access token, expiration) pairs the Esi has held       *)
(*             between flow operations                                     *)
(*   flows     number of flow operations started                           *)
(*   lastFlow  the flow operation that finished last, with the token       *)
(*             triple and the request count before and after it            *)

MaxNow == 2

MaxCalls == 1

MaxFlows == 1

States == {"s1"}

(* What a callback may carry as state: the issued one or a forged one.     *)
ReturnedStates == States \cup {"forged"}

ExpiresIn == {1, 1200}

(* The endpoint descriptors of CharacterGroup: api_get! / api_post!        *)
Endpoints == {"get_public_info", "get_history", "get_portrait",
              "get_affiliation", "get_blueprints"}

RequestTypeOf_AllPublic(ep) == "Public"

RequestTypeOf(ep) ==
    IF ep = "get_blueprints" THEN "Authenticated" ELSE "Public"

VerbOf(ep) == IF ep = "get_affiliation" THEN "POST" ELSE "GET"

(* CharacterGroup<'a> holds `esi: &'a Esi`: an endpoint call keeps a shared *)
(* borrow of the Esi for as long as it runs, which the borrow checker      *)
(* grants only while no exclusive borrow is live.                          *)
CanBorrowShared_Aliased == TRUE

CanBorrowShared == mut = None

(* The token triple is held in plain fields of Esi (Option<String>,        *)
(* Option<u64>), so writing it takes an exclusive borrow: no other borrow  *)
(* may be live.                                                            *)
CanBorrowMut == mut = None /\ borrow = 0

TokenTriple(e) == [access_token |-> e.access_token,
                   access_expiration |-> e.access_expiration,
                   refresh_token |-> e.refresh_token]

(* Builders that resume a session: the mandatory fields and any token      *)
(* triple.                                                                 *)
ResumeBuilders ==
    {[EsiBuilder_new EXCEPT !.user_agent = Some(UA_d),
                            !.client_id = Some("a"),
                            !.client_secret = Some("b"),
                            !.callback_url = Some("c"),
                            !.access_token = at,
                            !.access_expiration = ae,
                            !.refresh_token = rt] :
        at \in OptOf(Tokens), ae \in OptOf(Expirations), rt \in OptOf(RefreshTokens)}

AuthFlowError(reason) == [variant |-> "AuthFlowError", reason |-> reason]

TokenExpiredError == [variant |-> "TokenExpiredError"]

(* Section 3 of the design document: a token is valid only while the       *)
(* current time is before its expiration; without an expiration it is      *)
(* treated as expired.                                                     *)
TokenValid(tok, exp, t) == IsSome(tok) /\ IsSome(exp) /\ t < Unwrap(exp)

(* Headers of a request: the client's default headers, overridden by the   *)
(* headers given for the request.                                          *)
MergeHeaders(default, perRequest) ==
    [h \in DOMAIN default |->
        IF h \in DOMAIN perRequest /\ IsSome(perRequest[h])
        THEN perRequest[h] ELSE default[h]]

Request(origin, verb, op, perRequest) ==
    [origin |-> origin, verb |-> verb, op |-> op,
     headers |-> MergeHeaders(esi.client.default_headers, perRequest)]

NoAuthorization == [authorization |-> None]

Bearer(tok) == [authorization |-> Some("Bearer " \o tok)]

FlowsLeft == flows < MaxFlows

(* The provider's token response for the k-th grant.                       *)
Grants(k, refreshOptional) ==
    {[access_token |-> "t" \o ToString(k), expires_in |-> x, refresh_token |-> r] :
        x \in ExpiresIn,
        r \in {Some("r" \o ToString(k))} \cup (IF refreshOptional THEN {None} ELSE {})}

callVars == <<calls, ncalls, wire>>

Tick ==
    /\ now < MaxNow
    /\ now' = now + 1
    /\ UNCHANGED <<builderVars, esi, pending, callVars, sent, borrow, mut,
                   committed, flows, lastFlow>>

(* begin_authorization: a fresh state string, returned to the caller.      *)
BeginAuthorization ==
    /\ \E s \in States : pending' = Some(s)
    /\ UNCHANGED <<builderVars, esi, now, callVars, sent, borrow, mut,
                   committed, flows, lastFlow>>

StateMatches_Unchecked(returned, expected) == TRUE

StateMatches(returned, expected) == returned = expected

(* A flow operation that fails: nothing is written.                        *)
FlowFailed(op, reason, returned, expected, requests) ==
    /\ sent' = sent + requests
    /\ flows' = flows + 1
    /\ UNCHANGED <<builderVars, esi, now, pending, callVars, borrow, mut, committed>>
    /\ lastFlow' = Some([op |-> op, res |-> Err(AuthFlowError(reason)),
                         before |-> TokenTriple(esi), after |-> TokenTriple(esi'),
                         netBefore |-> sent, netAfter |-> sent',
                         returned |-> returned, expected |-> expected,
                         resp |-> None, at |-> now])

(* A flow operation the provider grants: one request to the token          *)
(* endpoint; the exclusive borrow is taken and the triple is then written  *)
(* field by field.                                                         *)
FlowGranted(op, resp, returned, expected) ==
    /\ sent' = sent + 1
    /\ flows' = flows + 1
    /\ mut' = Some([op |-> op, stage |-> "access", resp |-> resp,
                    before |-> TokenTriple(esi), netBefore |-> sent,
                    returned |-> returned, expected |-> expected, at |-> now])
    /\ UNCHANGED <<builderVars, esi, now, pending, callVars, borrow, committed, lastFlow>>

(* complete_authorization(code, returned_state, expected_state), the state *)
(* comparison failing: AuthFlowError before any network call.              *)
CompleteAuthorization_Mismatch ==
    /\ FlowsLeft /\ CanBorrowMut /\ IsSome(pending)
    /\ \E returned \in ReturnedStates :
        /\ ~StateMatches(returned, Unwrap(pending))
        /\ FlowFailed("complete_authorization", "state mismatch",
                      Some(returned), pending, 0)

(* complete_authorization, the provider rejecting the code.                *)
CompleteAuthorization_Rejected ==
    /\ FlowsLeft /\ CanBorrowMut /\ IsSome(pending)
    /\ \E returned \in ReturnedStates :
        /\ StateMatches(returned, Unwrap(pending))
        /\ FlowFailed("complete_authorization", "code rejected",
                      Some(returned), pending, 1)

(* complete_authorization, the provider granting a token pair.             *)
CompleteAuthorization_Exchange ==
    /\ FlowsLeft /\ CanBorrowMut /\ IsSome(pending)
    /\ \E returned \in ReturnedStates, resp \in Grants(flows + 1, FALSE) :
        /\ StateMatches(returned, Unwrap(pending))
        /\ FlowGranted("complete_authorization", resp, Some(returned), pending)

(* refresh with no refresh token held: AuthFlowError.                      *)
Refresh_NoToken ==
    /\ FlowsLeft /\ CanBorrowMut
    /\ ~IsSome(esi.refresh_token)
    /\ FlowFailed("refresh", "no refresh token", None, None, 0)

(* refresh, the provider rejecting the refresh token.                      *)
Refresh_Rejected ==
    /\ FlowsLeft /\ CanBorrowMut
    /\ IsSome(esi.refresh_token)
    /\ FlowFailed("refresh", "refresh token rejected", None, None, 1)

(* refresh, the provider answering with a new access token and possibly a  *)
(* new refresh token.                                                      *)
Refresh_Exchange ==
    /\ FlowsLeft /\ CanBorrowMut
    /\ IsSome(esi.refresh_token)
    /\ \E resp \in Grants(flows + 1, TRUE) :
        FlowGranted("refresh", resp, None, None)

WriteAccess ==
    /\ IsSome(mut) /\ Unwrap(mut).stage = "access"
    /\ esi' = [esi EXCEPT !.access_token = Some(Unwrap(mut).resp.access_token)]
    /\ mut' = Some([Unwrap(mut) EXCEPT !.stage = "expiration"])
    /\ UNCHANGED <<builderVars, now, pending, callVars, sent, borrow, committed,
                   flows, lastFlow>>

(* expiration = time of the response + expires_in                          *)
WriteExpiration ==
    /\ IsSome(mut) /\ Unwrap(mut).stage = "expiration"
    /\ esi' = [esi EXCEPT !.access_expiration =
                              Some(Unwrap(mut).at + Unwrap(mut).resp.expires_in)]
    /\ mut' = Some([Unwrap(mut) EXCEPT !.stage = "refresh"])
    /\ UNCHANGED <<builderVars, now, pending, callVars, sent, borrow, committed,
                   flows, lastFlow>>

NewRefreshToken_AlwaysReplaced(held, supplied) == supplied

(* The refresh token is replaced only if the provider supplied one.        *)
NewRefreshToken(held, supplied) == IF IsSome(supplied) THEN supplied ELSE held

(* The last write; the exclusive borrow ends.  A completed authorization   *)
(* consumes the authorization request.                                     *)
WriteRefresh ==
    /\ IsSome(mut) /\ Unwrap(mut).stage = "refresh"
    /\ LET m == Unwrap(mut)
       IN  /\ esi' = [esi EXCEPT !.refresh_token =
                                     NewRefreshToken(esi.refresh_token, m.resp.refresh_token)]
           /\ lastFlow' = Some([op |-> m.op, res |-> Ok(m.resp),
                                before |-> m.before, after |-> TokenTriple(esi'),
                                netBefore |-> m.netBefore, netAfter |-> sent,
                                returned |-> m.returned, expected |-> m.expected,
                                resp |-> Some(m.resp), at |-> m.at])
           /\ pending' = IF m.op = "complete_authorization" THEN None ELSE pending
    /\ mut' = None
    /\ committed' = committed \cup {<<esi'.access_token, esi'.access_expiration>>}
    /\ UNCHANGED <<builderVars, now, callVars, sent, borrow, flows>>

(* An endpoint method is called: the shared borrow is taken.               *)
CallStart ==
    /\ ncalls < MaxCalls
    /\ CanBorrowShared
    /\ \E ep \in Endpoints :
        calls' = calls \cup {[id |-> ncalls + 1, ep |-> ep, phase |-> "borrowed",
                              tok |-> None, exp |-> None, at |-> 0, res |-> None]}
    /\ ncalls' = ncalls + 1
    /\ borrow' = borrow + 1
    /\ UNCHANGED <<builderVars, esi, now, pending, wire, sent, mut,
                   committed, flows, lastFlow>>

(* Public descriptor: the request is sent without looking at the tokens.   *)
CallSendPublic ==
    /\ \E c \in calls :
        /\ c.phase = "borrowed"
        /\ RequestTypeOf(c.ep) = "Public"
        /\ wire' = wire \cup {Request(c.id, VerbOf(c.ep), c.ep, NoAuthorization)}
        /\ calls' = (calls \ {c}) \cup {[c EXCEPT !.phase = "sent"]}
    /\ sent' = sent + 1
    /\ UNCHANGED <<builderVars, esi, now, pending, ncalls, borrow, mut,
                   committed, flows, lastFlow>>

(* Authenticated descriptor: the access token is read ...                  *)
CallReadToken ==
    /\ \E c \in calls :
        /\ c.phase = "borrowed"
        /\ RequestTypeOf(c.ep) = "Authenticated"
        /\ calls' = (calls \ {c}) \cup {[c EXCEPT !.phase = "tokread",
                                                  !.tok = esi.access_token]}
    /\ UNCHANGED <<builderVars, esi, now, pending, ncalls, wire, sent,
                   borrow, mut, committed, flows, lastFlow>>

(* ... then the expiration, and the call is gated: TokenExpiredError, or   *)
(* the request is sent with the bearer token.                              *)
CallGate ==
    /\ \E c \in calls :
        /\ c.phase = "tokread"
        /\ LET exp == esi.access_expiration
           IN  IF TokenValid(c.tok, exp, now)
               THEN /\ wire' = wire \cup {Request(c.id, VerbOf(c.ep), c.ep,
                                                  Bearer(Unwrap(c.tok)))}
                    /\ sent' = sent + 1
                    /\ calls' = (calls \ {c}) \cup
                                    {[c EXCEPT !.phase = "sent", !.exp = exp, !.at = now]}
               ELSE /\ wire' = wire
                    /\ sent' = sent
                    /\ calls' = (calls \ {c}) \cup
                                    {[c EXCEPT !.phase = "rejected", !.exp = exp,
                                               !.at = now,
                                               !.res = Some(Err(TokenExpiredError))]}
    /\ UNCHANGED <<builderVars, esi, now, pending, ncalls, borrow, mut,
                   committed, flows, lastFlow>>

(* The gated call returns its error; its borrow ends.                      *)
CallReturnRejected ==
    /\ \E c \in calls :
        /\ c.phase = "rejected"
        /\ calls' = calls \ {c}
    /\ borrow' = borrow - 1
    /\ UNCHANGED <<builderVars, esi, now, pending, ncalls, wire, sent, mut,
                   committed, flows, lastFlow>>

(* The response arrives and is mapped to the typed result; the call        *)
(* returns and its borrow ends.                                            *)
CallResponse ==
    /\ \E c \in calls :
        /\ c.phase = "sent"
        /\ calls' = calls \ {c}
        /\ wire' = {q \in wire : q.origin /= c.id}
    /\ borrow' = borrow - 1
    /\ UNCHANGED <<builderVars, esi, now, pending, ncalls, sent, mut,
                   committed, flows, lastFlow>>

InitClient ==
    /\ builder \in ResumeBuilders
    /\ last = [f \in BuilderFields |->
                  IF builder[f] = None THEN None
                  ELSE IF f \in {"version", "client_id", "client_secret",
                                 "callback_url", "user_agent"}
                       THEN builder[f] ELSE Some(builder[f])]
    /\ result = Some(build(builder))
    /\ esi = Unwrap(result).val
    /\ now = 0
    /\ pending = None
    /\ calls = {}
    /\ ncalls = 0
    /\ wire = {}
    /\ sent = 0
    /\ borrow = 0
    /\ mut = None
    /\ committed = {<<esi.access_token, esi.access_expiration>>}
    /\ flows = 0
    /\ lastFlow = None

NextClient ==
    \/ Tick
    \/ BeginAuthorization
    \/ CompleteAuthorization_Mismatch
    \/ CompleteAuthorization_Rejected
    \/ CompleteAuthorization_Exchange
    \/ Refresh_NoToken
    \/ Refresh_Rejected
    \/ Refresh_Exchange
    \/ WriteAccess
    \/ WriteExpiration
    \/ WriteRefresh
    \/ CallStart
    \/ CallSendPublic
    \/ CallReadToken
    \/ CallGate
    \/ CallReturnRejected
    \/ CallResponse

SpecClient == InitClient /\ [][NextClient]_vars

----------------------------------------------------------------------------
(* Properties of the builder                                               *)

Built == result /= None

Res == Unwrap(result)

MandatoryOrder == <<"user_agent", "client_id", "client_secret", "callback_url">>

(* A field is unset when its setter was never called.                      *)
Unset(f) == last[f] = None

SomeMandatoryUnset == \E i \in 1..4 : Unset(MandatoryOrder[i])

FirstUnset ==
    MandatoryOrder[CHOOSE i \in 1..4 :
                       /\ Unset(MandatoryOrder[i])
                       /\ \A j \in 1..(i - 1) : ~Unset(MandatoryOrder[j])]

(* Bytes that may not occur in an HTTP header value: the control           *)
(* characters other than tab, and DEL.                                     *)
HasIllegalByte(s) == \E i \in 1..Len(s) : s[i] \in ((0..31) \ {9}) \cup {127}

UserAgentIllegal == ~Unset("user_agent") /\ HasIllegalByte(Unwrap(last.user_agent))

(* The value a field holds after the calls recorded in `last`: for a &str  *)
(* setter Some(arg), for an Option setter the argument itself.             *)
StrFields == {"version", "client_id", "client_secret", "callback_url", "user_agent"}

Expected(f) ==
    IF last[f] = None THEN None
    ELSE IF f \in StrFields THEN last[f] ELSE Unwrap(last[f])

(* C1 as stated: whenever a mandatory field was left unset, build() fails  *)
(* with EmptyClientValue naming the first unset field in the order         *)
(* user_agent, client_id, client_secret, callback_url.                     *)
C1_FirstUnsetReported ==
    (Built /\ SomeMandatoryUnset) => Res = Err(EmptyClientValue(FirstUnset))

(* C1 amended: the same, provided the user agent is unset or is a legal    *)
(* header value.                                                           *)
C1_FirstUnsetReportedLegalAgent ==
    (Built /\ SomeMandatoryUnset /\ ~UserAgentIllegal)
        => Res = Err(EmptyClientValue(FirstUnset))

C1_Witness ==
    /\ Built
    /\ ~Unset("user_agent") /\ ~UserAgentIllegal
    /\ ~Unset("client_id")
    /\ Unset("client_secret")
    /\ Unset("callback_url")
    /\ Res = Err(EmptyClientValue("client_secret"))

(* C2: with the four mandatory fields set and a legal user agent, build()  *)
(* succeeds; version is "latest" and the timeout 60 000 ms unless set, and *)
(* otherwise they and the three identity fields are the last values given. *)
C2_ValidBuildDefaults ==
    (Built /\ ~SomeMandatoryUnset /\ ~UserAgentIllegal) =>
        /\ Res.ok
        /\ Res.val.version = (IF Unset("version") THEN "latest"
                              ELSE Unwrap(last.version))
        /\ Res.val.client.timeout =
               (IF last.http_timeout \in {None, Some(None)} THEN 60000
                ELSE Unwrap(Unwrap(last.http_timeout)))
        /\ Res.val.client_id = Unwrap(last.client_id)
        /\ Res.val.client_secret = Unwrap(last.client_secret)
        /\ Res.val.callback_url = Unwrap(last.callback_url)

C2_Witness ==
    /\ Built
    /\ ~SomeMandatoryUnset /\ ~UserAgentIllegal
    /\ Unset("version")
    /\ last.http_timeout = Some(None)
    /\ Res.ok
    /\ Res.val.version = "latest"
    /\ Res.val.client.timeout = 60000

(* C3: build() with a user agent holding a byte illegal in a header value  *)
(* fails, produces no client, and the error is of the configuration kind,  *)
(* the kind of a missing mandatory field, not a transport error.           *)
C3_IllegalAgentIsConfigError ==
    (Built /\ UserAgentIllegal) =>
        /\ ~Res.ok
        /\ ErrorKind(Res.err) = ErrorKind(EmptyClientValue("user_agent"))
        /\ ErrorKind(Res.err) /= "TransportError"

C3_Witness ==
    /\ Built
    /\ last.user_agent = Some(UA_newline)
    /\ ~Unset("client_id") /\ ~Unset("client_secret") /\ ~Unset("callback_url")
    /\ ~Res.ok

(* C4 as stated: every instance build() returns has a non-empty client id, *)
(* client secret, callback URL and user agent.                             *)
C4_BuiltFieldsNonEmpty ==
    (Built /\ Res.ok) =>
        /\ Res.val.client_id /= ""
        /\ Res.val.client_secret /= ""
        /\ Res.val.callback_url /= ""
        /\ Unwrap(Res.val.client.default_headers.user_agent) /= <<>>

(* C10: every setter changes its own field only and the last call wins;    *)
(* a successful build() hands the token triple over as last set.           *)
C10_SettersFrameTokenTriple ==
    /\ \A f \in BuilderFields : builder[f] = Expected(f)
    /\ (Built /\ Res.ok) =>
           /\ Res.val.access_token = Expected("access_token")
           /\ Res.val.access_expiration = Expected("access_expiration")
           /\ Res.val.refresh_token = Expected("refresh_token")

C10_Witness ==
    /\ Built /\ Res.ok
    /\ last.access_token = Some(Some("t0"))
    /\ last.access_expiration = Some(None)
    /\ last.refresh_token = Some(Some("r0"))
    /\ Res.val.access_token = Some("t0")
    /\ Res.val.access_expiration = None
    /\ Res.val.refresh_token = Some("r0")

----------------------------------------------------------------------------
(* Properties of the client                                                *)

AuthenticatedEndpoints == {"get_blueprints"}

PublicEndpoints == {"get_public_info", "get_history", "get_portrait", "get_affiliation"}

Gated(c) == c.phase \in {"sent", "rejected"}

(* The token state gives no valid token at time t: no access token, no     *)
(* expiration, or an expiration in the past.                               *)
NoValidToken(t) ==
    \/ esi.access_token = None
    \/ esi.access_expiration = None
    \/ Unwrap(esi.access_expiration) < t

(* C5: a call to an Authenticated endpoint gated while the access token is *)
(* absent, the expiration is absent or the expiration is in the past fails *)
(* with TokenExpiredError, and no request of it is on the wire.            *)
C5_AuthenticatedCallGated ==
    \A c \in calls :
        (c.ep \in AuthenticatedEndpoints /\ Gated(c) /\ NoValidToken(c.at)) =>
            /\ c.phase = "rejected"
            /\ c.res = Some(Err(TokenExpiredError))
            /\ \A q \in wire : q.origin /= c.id

C5_Witness ==
    \E c \in calls :
        /\ c.ep = "get_blueprints"
        /\ c.phase = "rejected"
        /\ esi.access_token = Some("t0")
        /\ esi.access_expiration = None
        /\ builder.access_expiration = None
        /\ wire = {}

(* C6: a call to a Public endpoint is never gated on the tokens, and the   *)
(* request it sends carries no Authorization header, whatever the token    *)
(* state.                                                                  *)
C6_PublicCallNoAuthorization ==
    \A c \in calls :
        c.ep \in PublicEndpoints =>
            /\ c.phase \notin {"tokread", "rejected"}
            /\ c.phase = "sent" => \E q \in wire : q.origin = c.id
            /\ \A q \in wire : q.origin = c.id => q.headers.authorization = None

C6_Witness ==
    \E c \in calls :
        /\ c.ep = "get_affiliation"
        /\ c.phase = "sent"
        /\ TokenValid(esi.access_token, esi.access_expiration, now)
        /\ \E q \in wire : q.origin = c.id /\ q.headers.authorization = None

(* C7: complete_authorization with a returned state other than the         *)
(* expected one fails with AuthFlowError, issues no request and leaves the *)
(* token triple as it was; no exchange is ever under way for it.           *)
C7_StateMismatchRejected ==
    /\ IsSome(lastFlow) =>
           LET e == Unwrap(lastFlow)
           IN  (e.op = "complete_authorization" /\ e.returned /= e.expected) =>
                   /\ ~e.res.ok
                   /\ e.res.err.variant = "AuthFlowError"
                   /\ e.netAfter = e.netBefore
                   /\ e.after = e.before
    /\ IsSome(mut) =>
           (Unwrap(mut).op = "complete_authorization"
                => Unwrap(mut).returned = Unwrap(mut).expected)

C7_Witness ==
    /\ IsSome(lastFlow)
    /\ Unwrap(lastFlow).op = "complete_authorization"
    /\ Unwrap(lastFlow).returned = Some("forged")
    /\ Unwrap(lastFlow).expected = Some("s1")
    /\ ~Unwrap(lastFlow).res.ok
    /\ esi.access_token = None
    /\ sent = 0

(* C8: a successful refresh leaves the provider's access token and the     *)
(* expiration computed from its expires_in, and the provider's refresh     *)
(* token if it supplied one, else the one held before; a refresh with no   *)
(* refresh token held fails with AuthFlowError.                            *)
C8_RefreshReplacesTokens ==
    IsSome(lastFlow) =>
        LET e == Unwrap(lastFlow)
        IN  e.op = "refresh" =>
                /\ mut = None => TokenTriple(esi) = e.after
                /\ e.res.ok =>
                       LET resp == Unwrap(e.resp)
                       IN  /\ e.after.access_token = Some(resp.access_token)
                           /\ e.after.access_expiration = Some(e.at + resp.expires_in)
                           /\ e.after.refresh_token =
                                  (IF resp.refresh_token /= None
                                   THEN resp.refresh_token
                                   ELSE e.before.refresh_token)
                /\ e.before.refresh_token = None =>
                       /\ ~e.res.ok
                       /\ e.res.err.variant = "AuthFlowError"

C8_Witness ==
    /\ IsSome(lastFlow)
    /\ Unwrap(lastFlow).op = "refresh"
    /\ Unwrap(lastFlow).res.ok
    /\ Unwrap(Unwrap(lastFlow).resp).refresh_token = None
    /\ Unwrap(lastFlow).before.refresh_token = Some("r0")
    /\ esi.refresh_token = Some("r0")
    /\ esi.access_token = Some("t1")

(* C9: the (access token, expiration) pair an endpoint call is gated on is *)
(* a pair the Esi held between flow operations, never the token of one     *)
(* token state with the expiration of another.                             *)
C9_GatingSnapshotNotTorn ==
    \A c \in calls :
        (c.ep \in AuthenticatedEndpoints /\ Gated(c)) => <<c.tok, c.exp>> \in committed

C9_Witness ==
    \E c \in calls :
        /\ c.ep = "get_blueprints"
        /\ c.phase = "sent"
        /\ c.tok = Some("t1")
        /\ Cardinality(committed) = 2
        /\ flows = 1

====
